---- MODULE Spec2Model ----
(***************************************************************************)
(* Low-rank decomposition of trained layers (decompositions.py).           *)
(*                                                                         *)
(* A caller holds one trained layer, applies a decomposition function to   *)
(* it, receives an nn.Sequential chain (or an exception), may feed an      *)
(* input through the chain, may update a parameter of the chain in place   *)
(* (fine-tuning), and may call a decomposition function again.             *)
(*                                                                         *)
(* Tensors are modelled by their shape, an identity tag for their values   *)
(* (which factor of which decomposition, under which initialisation and    *)
(* random draw), and the storage they live in, so that views and copies    *)
(* are told apart.  The matrices of the dense-layer SVD are modelled entry *)
(* by entry.                                                               *)
(***************************************************************************)
EXTENDS Integers, Sequences, FiniteSets, TLC

VARIABLES
    layer,      \* the trained layer handed to the decomposition functions
    heap,       \* storage -> number of in-place writes it has received
    rng,        \* state of the process-wide numpy random generator
    pc,         \* "idle", "done" (a chain was returned) or "raised"
    call,       \* the function last called and its rank argument
    err,        \* the exception that ended the last call, or "none"
    libfail,    \* whether the library failed in the last call
    chain,      \* the nn.Sequential returned by the last call, <<>> if none
    prev,       \* the call and chain of the previous returned call
    fwd,        \* output shapes of the original layer and of the chain
    calls,      \* number of calls made
    updates     \* number of in-place updates made

vars == <<layer, heap, rng, pc, call, err, libfail, chain, prev, fwd, calls, updates>>

----------------------------------------------------------------------------
(* Bounds of the model                                                     *)

MaxChan == 2        \* small channel counts are 1..MaxChan
MaxFeat == 3        \* features of a dense layer are 1..MaxFeat
MaxRank == 2        \* ranks given or estimated are 1..MaxRank
MaxInput == 4       \* input height and width are 1..MaxInput
MaxCalls == 2       \* calls made by the caller
MaxUpdates == 1     \* in-place updates made by the caller

(* Program constant: the size from which parafac is initialised randomly.  *)
RandomInitSize == 256

----------------------------------------------------------------------------
(* Arithmetic and shape helpers                                            *)

Min(a, b) == IF a <= b THEN a ELSE b

RECURSIVE MaxOf(_)
MaxOf(s) == IF Len(s) = 1 THEN s[1]
            ELSE LET m == MaxOf(Tail(s)) IN IF s[1] >= m THEN s[1] ELSE m

RECURSIVE Prod(_)
Prod(s) == IF s = <<>> THEN 1 ELSE s[1] * Prod(Tail(s))

Pair(n) == <<n, n>>

(* Tensors.  data identifies the values: src names the producing factor,   *)
(* init and seed the initialisation it came from, t whether transposed.    *)
(* val holds the entries of a matrix where they are modelled, else <<>>.   *)
Tag(src, init, seed) == [src |-> src, init |-> init, seed |-> seed, t |-> FALSE]

Array(shape, data, store, val) ==
    [shape |-> shape, data |-> data, store |-> store, val |-> val]

None == Array(<<>>, Tag("None", "none", 0), <<"none", 0>>, <<>>)

LayerWeightStore == <<"layer.weight", 0>>
LayerBiasStore == <<"layer.bias", 0>>

Stores ==
    {LayerWeightStore, LayerBiasStore}
        \cup ({"factor", "new.weight", "new.bias"} \X (0..4))

----------------------------------------------------------------------------
(* numpy / torch tensor operations used by the code                        *)

(* a.transpose(1, 0) and t() of a matrix: a view with the axes swapped.    *)
Transpose(a) ==
    [a EXCEPT !.shape = <<a.shape[2], a.shape[1]>>,
              !.data = [a.data EXCEPT !.t = ~a.data.t],
              !.val = IF a.val = <<>> THEN <<>>
                      ELSE [c \in 1..Len(a.val[1]) |->
                              [r \in 1..Len(a.val) |-> a.val[r][c]]]]

(* np.expand_dims(a, axis): a view with a new axis of length 1 at axis     *)
(* (counted from 0; a negative axis counts from the end of the result).    *)
ExpandDims(a, axis) ==
    LET n == Len(a.shape)
        at == IF axis < 0 THEN axis + n + 1 ELSE axis
    IN [a EXCEPT !.shape = SubSeq(a.shape, 1, at) \o <<1>>
                              \o SubSeq(a.shape, at + 1, n)]

(* torch.from_numpy(np.float32(a)) and a.copy(): the values of a in a new  *)
(* storage.                                                                *)
CopyTo(a, store) == [a EXCEPT !.store = store]

(* layer.weight.data(.numpy()): the layer's weight, sharing its storage.   *)
WeightData(l) == Array(l.wshape, Tag("weight", "none", 0), LayerWeightStore, <<>>)

(* layer.bias.data: the layer's bias tensor, sharing its storage.          *)
BiasData(l) == Array(<<l.wshape[1]>>, Tag("bias", "none", 0), LayerBiasStore, <<>>)

(* torch.nn.Conv2d(...): a layer with freshly allocated parameters.        *)
Conv2d(in_channels, out_channels, kernel_size, stride, padding, dilation, groups, bias, idx) ==
    [type |-> "Conv2d",
     in_channels |-> in_channels, out_channels |-> out_channels,
     kernel_size |-> kernel_size, stride |-> stride, padding |-> padding,
     dilation |-> dilation, groups |-> groups,
     weight |-> Array(<<out_channels, in_channels \div groups,
                        kernel_size[1], kernel_size[2]>>,
                      Tag("fresh", "none", 0), <<"new.weight", idx>>, <<>>),
     bias |-> IF bias
              THEN Array(<<out_channels>>, Tag("fresh", "none", 0),
                         <<"new.bias", idx>>, <<>>)
              ELSE None]

(* nn.Linear(in_features, out_features, bias); the two counts are kept in  *)
(* the fields in_channels and out_channels.                                *)
Linear(in_features, out_features, bias, idx) ==
    [type |-> "Linear",
     in_channels |-> in_features, out_channels |-> out_features,
     kernel_size |-> <<>>, stride |-> <<>>, padding |-> <<>>,
     dilation |-> <<>>, groups |-> 1,
     weight |-> Array(<<out_features, in_features>>,
                      Tag("fresh", "none", 0), <<"new.weight", idx>>, <<>>),
     bias |-> IF bias
              THEN Array(<<out_features>>, Tag("fresh", "none", 0),
                         <<"new.bias", idx>>, <<>>)
              ELSE None]

----------------------------------------------------------------------------
(* cp_decomposition_conv_layer                                             *)

(* Mutant: the comparison inverted, small tensors initialised randomly.    *)
UseRandomInit_inverted(size) == size < RandomInitSize

(* size >= 256: parafac is initialised randomly instead of by SVD.         *)
UseRandomInit(size) == size >= RandomInitSize

InitOf(X) == IF UseRandomInit(MaxOf(X.shape)) THEN "random" ELSE "svd"

CPModes == <<"cp.mode0", "cp.mode1", "cp.mode2", "cp.mode3">>

(* Whether parafac(X, rank, init) draws from the process-wide generator    *)
(* (no random_state is passed): under init = 'random' it draws every       *)
(* factor, under init = 'svd' it draws the columns of a factor beyond the  *)
(* size of its mode, which the SVD of the unfolding cannot supply.         *)
Draws(X, rank, init) ==
    init = "random" \/ \E m \in 1..Len(X.shape) : X.shape[m] < rank

(* parafac(X, rank, init): one factor matrix of shape (X.shape[m], rank)   *)
(* per mode.  The factors depend on X, rank and init, and on the draw      *)
(* taken from the generator when there is one.                             *)
parafac(X, rank, init, seed) ==
    [m \in 1..Len(X.shape) |->
        Array(<<X.shape[m], rank>>,
              Tag(CPModes[m], init, IF Draws(X, rank, init) THEN seed + 1 ELSE 0),
              <<"factor", m>>, <<>>)]

pointwise_s_to_r_layer(l, first) ==
    [Conv2d(first.shape[1], first.shape[2], Pair(1), l.stride, Pair(0),
            l.dilation, 1, FALSE, 1)
     EXCEPT !.weight =
        CopyTo(ExpandDims(ExpandDims(Transpose(first), -1), -1),
               <<"new.weight", 1>>)]

depthwise_vertical_layer(l, vertical) ==
    [Conv2d(vertical.shape[2], vertical.shape[2], <<vertical.shape[1], 1>>,
            l.stride, <<l.padding[1], 0>>, l.dilation, vertical.shape[2],
            FALSE, 2)
     EXCEPT !.weight =
        CopyTo(ExpandDims(ExpandDims(Transpose(vertical), 1), -1),
               <<"new.weight", 2>>)]

depthwise_horizontal_layer(l, horizontal) ==
    [Conv2d(horizontal.shape[2], horizontal.shape[2],
            <<1, horizontal.shape[1]>>, l.stride, <<0, l.padding[1]>>,
            l.dilation, horizontal.shape[2], FALSE, 3)
     EXCEPT !.weight =
        CopyTo(ExpandDims(ExpandDims(Transpose(horizontal), 1), 1),
               <<"new.weight", 3>>)]

pointwise_r_to_t_layer(l, last) ==
    [Conv2d(last.shape[2], last.shape[1], Pair(1), l.stride, Pair(0),
            l.dilation, 1, TRUE, 4)
     EXCEPT !.bias = BiasData(l),
            !.weight = CopyTo(ExpandDims(ExpandDims(last, -1), -1),
                              <<"new.weight", 4>>)]

(* Mutant: the factors of the output and input channels unpacked in the    *)
(* opposite order.                                                         *)
cp_decomposition_unpack_swapped(l, rank, seed) ==
    LET X == WeightData(l)
        F == parafac(X, rank, InitOf(X), seed)
    IN <<pointwise_s_to_r_layer(l, F[1]),
         depthwise_vertical_layer(l, F[3]),
         depthwise_horizontal_layer(l, F[4]),
         pointwise_r_to_t_layer(l, F[2])>>

(* The chain returned when neither parafac nor the bias assignment raises. *)
cp_decomposition_conv_layer(l, rank, seed) ==
    LET X == WeightData(l)
        F == parafac(X, rank, InitOf(X), seed)
        last == F[1]
        first == F[2]
        vertical == F[3]
        horizontal == F[4]
    IN <<pointwise_s_to_r_layer(l, first),
         depthwise_vertical_layer(l, vertical),
         depthwise_horizontal_layer(l, horizontal),
         pointwise_r_to_t_layer(l, last)>>

----------------------------------------------------------------------------
(* estimate_ranks_tucker and tucker_decomposition_conv_layer               *)

(* tl.base.unfold(a, mode): the matrix with axis mode as rows and all the  *)
(* other axes flattened into the columns.                                  *)
unfold(a, mode) ==
    Array(<<a.shape[mode + 1], Prod(a.shape) \div a.shape[mode + 1]>>,
          Tag(IF mode = 0 THEN "unfold0" ELSE "unfold1", "none", 0),
          <<"factor", 0>>, <<>>)

(* VBMF.EVBMF(M): the shape of the diagonal matrix it returns, rank x rank *)
(* for the rank it estimates for M.  The rank is a property of the trained *)
(* weights: l.est[1] for the weights unfolded along mode 0 (and for the 2D *)
(* weights of a dense layer), l.est[2] for the unfolding along mode 1.     *)
EVBMF(l, M) ==
    LET r == IF M.data.src = "unfold1" THEN l.est[2] ELSE l.est[1]
    IN <<r, r>>

(* Mutant: the two estimated ranks returned in the opposite order.         *)
estimate_ranks_swapped(l) ==
    LET weights == WeightData(l)
        diag_0 == EVBMF(l, unfold(weights, 0))
        diag_1 == EVBMF(l, unfold(weights, 1))
    IN <<diag_1[2], diag_0[1]>>

estimate_ranks_tucker(l) ==
    LET weights == WeightData(l)
        unfold_0 == unfold(weights, 0)
        unfold_1 == unfold(weights, 1)
        diag_0 == EVBMF(l, unfold_0)
        diag_1 == EVBMF(l, unfold_1)
    IN <<diag_0[1], diag_1[2]>>

(* partial_tucker(X, modes, ranks, init='svd'): the core, X with the size  *)
(* of axis modes[i] replaced by ranks[i], and one factor per mode of shape *)
(* (X.shape[modes[i]], ranks[i]).                                          *)
partial_tucker(X, modes, ranks) ==
    [core |-> Array([a \in 1..Len(X.shape) |->
                        IF \E i \in 1..Len(modes) : modes[i] + 1 = a
                        THEN ranks[CHOOSE i \in 1..Len(modes) : modes[i] + 1 = a]
                        ELSE X.shape[a]],
                    Tag("tucker.core", "svd", 0), <<"factor", 0>>, <<>>),
     factors |-> [i \in 1..Len(modes) |->
                    Array(<<X.shape[modes[i] + 1], ranks[i]>>,
                          Tag(IF modes[i] = 0 THEN "tucker.mode0"
                                              ELSE "tucker.mode1", "svd", 0),
                          <<"factor", i>>, <<>>)]]

(* Mutant: the first pointwise layer given the stride of the original.     *)
first_layer_strided(l, first) ==
    [Conv2d(first.shape[1], first.shape[2], Pair(1), l.stride, Pair(0),
            l.dilation, 1, FALSE, 1)
     EXCEPT !.weight =
        CopyTo(ExpandDims(ExpandDims(Transpose(first), -1), -1),
               <<"new.weight", 1>>)]

first_layer(l, first) ==
    [Conv2d(first.shape[1], first.shape[2], Pair(1), Pair(1), Pair(0),
            l.dilation, 1, FALSE, 1)
     EXCEPT !.weight =
        CopyTo(ExpandDims(ExpandDims(Transpose(first), -1), -1),
               <<"new.weight", 1>>)]

core_layer(l, core) ==
    [Conv2d(core.shape[2], core.shape[1], l.kernel_size, l.stride, l.padding,
            l.dilation, 1, FALSE, 2)
     EXCEPT !.weight = CopyTo(core, <<"new.weight", 2>>)]

last_layer(l, last) ==
    [Conv2d(last.shape[2], last.shape[1], Pair(1), Pair(1), Pair(0),
            l.dilation, 1, TRUE, 3)
     EXCEPT !.bias = BiasData(l),
            !.weight = CopyTo(ExpandDims(ExpandDims(last, -1), -1),
                              <<"new.weight", 3>>)]

(* The chain returned when nothing raises.                                 *)
tucker_decomposition_conv_layer(l) ==
    LET ranks == estimate_ranks_tucker(l)
        T == partial_tucker(WeightData(l), <<0, 1>>, ranks)
        core == T.core
        last == T.factors[1]
        first == T.factors[2]
    IN <<first_layer(l, first), core_layer(l, core), last_layer(l, last)>>

----------------------------------------------------------------------------
(* estimate_ranks_svd and svd_decomposition_dense_layer                    *)

estimate_ranks_svd(l) == EVBMF(l, WeightData(l))[1]

(* X.svd(): U (out x m), S (m) and V (in x m), m = min(out, in), in the    *)
(* order torch returns them (singular values descending).  The entries are *)
(* stand-ins that tell every position of U, S and V apart.                 *)
UEntry(i, j) == 10 * i + j
SEntry(j, m) == m - j + 2
VEntry(i, j) == 100 + 10 * i + j

svd(X) ==
    LET m == Min(X.shape[1], X.shape[2])
    IN [U |-> Array(<<X.shape[1], m>>, Tag("svd.U", "none", 0), <<"factor", 1>>,
                    [i \in 1..X.shape[1] |-> [j \in 1..m |-> UEntry(i, j)]]),
        S |-> Array(<<m>>, Tag("svd.S", "none", 0), <<"factor", 2>>,
                    [j \in 1..m |-> SEntry(j, m)]),
        V |-> Array(<<X.shape[2], m>>, Tag("svd.V", "none", 0), <<"factor", 3>>,
                    [i \in 1..X.shape[2] |-> [j \in 1..m |-> VEntry(i, j)]])]

(* A[:, :k]: a view of the first k columns.                                *)
Cols(A, k) ==
    [A EXCEPT !.shape = <<A.shape[1], Min(k, A.shape[2])>>,
              !.val = [i \in 1..Len(A.val) |->
                          SubSeq(A.val[i], 1, Min(k, A.shape[2]))]]

(* S[:k]: a view of the first k entries.                                   *)
First(S, k) ==
    [S EXCEPT !.shape = <<Min(k, S.shape[1])>>,
              !.val = SubSeq(S.val, 1, Min(k, S.shape[1]))]

(* torch.diag(v): a new square matrix with v on the diagonal.              *)
diag(v) ==
    Array(<<v.shape[1], v.shape[1]>>, Tag("diag", "none", 0), <<"factor", 4>>,
          [i \in 1..v.shape[1] |->
              [j \in 1..v.shape[1] |-> IF i = j THEN v.val[i] ELSE 0]])

RECURSIVE Dot(_, _, _, _, _)
Dot(A, B, i, j, n) ==
    IF n = 0 THEN 0 ELSE Dot(A, B, i, j, n - 1) + A[i][n] * B[n][j]

(* torch.mm(A, B): a new matrix, the product of A and B.                   *)
mm(A, B, store) ==
    Array(<<A.shape[1], B.shape[2]>>, Tag("mm", "none", 0), store,
          [i \in 1..A.shape[1] |->
              [j \in 1..B.shape[2] |-> Dot(A.val, B.val, i, j, A.shape[2])]])

V_layer(X, rank, Vk) ==
    [Linear(rank, X.shape[2], FALSE, 1) EXCEPT !.weight = Transpose(Vk)]

(* Mutant: the left singular vectors stored without the singular values.   *)
U_layer_unscaled(l, X, rank, Uk, Sk) ==
    [Linear(X.shape[1], rank, TRUE, 2)
     EXCEPT !.weight = CopyTo(Uk, <<"new.weight", 2>>),
            !.bias = BiasData(l)]

U_layer(l, X, rank, Uk, Sk) ==
    [Linear(X.shape[1], rank, TRUE, 2)
     EXCEPT !.weight = mm(Uk, diag(Sk), <<"new.weight", 2>>),
            !.bias = BiasData(l)]

(* The chain returned when nothing raises.                                 *)
svd_decomposition_dense_layer(l) ==
    LET rank == estimate_ranks_svd(l)
        X == WeightData(l)
        D == svd(X)
        Uk == Cols(D.U, rank)
        Sk == First(D.S, rank)
        Vk == Cols(D.V, rank)
    IN <<V_layer(X, rank, Vk), U_layer(l, X, rank, Uk, Sk)>>

----------------------------------------------------------------------------
(* Forward pass: the output shape of a convolution layer and of a chain    *)

(* Output length of a convolution along one axis; 0 when the (padded)      *)
(* input is shorter than the (dilated) kernel, which torch rejects.        *)
ConvOut(n, k, s, p, d) ==
    LET span == n + 2 * p - d * (k - 1) - 1
    IN IF n <= 0 \/ span < 0 THEN 0 ELSE (span \div s) + 1

NoShape == <<0, 0, 0>>

(* Output shape <<channels, height, width>> of layer L on input x, NoShape *)
(* when the forward pass raises.                                           *)
LayerOut(L, x) ==
    LET h == ConvOut(x[2], L.kernel_size[1], L.stride[1], L.padding[1],
                     L.dilation[1])
        w == ConvOut(x[3], L.kernel_size[2], L.stride[2], L.padding[2],
                     L.dilation[2])
    IN IF x = NoShape \/ x[1] # L.in_channels \/ h = 0 \/ w = 0
       THEN NoShape
       ELSE <<L.out_channels, h, w>>

(* nn.Sequential: the layers applied in order.                             *)
RECURSIVE SequentialOut(_, _)
SequentialOut(ch, x) ==
    IF ch = <<>> THEN x ELSE SequentialOut(Tail(ch), LayerOut(Head(ch), x))

(* The layer being decomposed, as the convolution it is.                   *)
Original(l) ==
    Conv2d(l.wshape[2], l.wshape[1], l.kernel_size, l.stride, l.padding,
           l.dilation, 1, l.hasBias, 0)

----------------------------------------------------------------------------
(* The layers the caller may hold                                          *)

Geometries ==
    { [k |-> <<1, 1>>, s |-> <<1, 1>>, p |-> <<0, 0>>, d |-> <<1, 1>>],
      [k |-> <<3, 3>>, s |-> <<1, 1>>, p |-> <<1, 1>>, d |-> <<1, 1>>],
      [k |-> <<3, 3>>, s |-> <<2, 2>>, p |-> <<1, 1>>, d |-> <<1, 1>>],
      [k |-> <<3, 3>>, s |-> <<1, 1>>, p |-> <<2, 2>>, d |-> <<2, 2>>],
      [k |-> <<2, 3>>, s |-> <<1, 1>>, p |-> <<0, 0>>, d |-> <<1, 1>>],
      [k |-> <<3, 1>>, s |-> <<1, 1>>, p |-> <<1, 0>>, d |-> <<1, 1>>] }

OutChannels == (1..MaxChan) \cup {RandomInitSize - 1, RandomInitSize}

(* est holds the ranks EVBMF estimates for the weights: a rank is at least *)
(* 1 here and at most the smaller side of the matrix it is estimated for.  *)
ConvLayers ==
    { [kind |-> "conv", wshape |-> <<T, S, g.k[1], g.k[2]>>,
       kernel_size |-> g.k, stride |-> g.s, padding |-> g.p,
       dilation |-> g.d, hasBias |-> b, est |-> e] :
         <<T, S, g, b, e>> \in
            { x \in OutChannels \X (1..MaxChan) \X Geometries \X BOOLEAN
                      \X ((1..MaxRank) \X (1..MaxRank)) :
                /\ x[5][1] <= Min(x[1], x[2] * x[3].k[1] * x[3].k[2])
                /\ x[5][2] <= Min(x[2], x[1] * x[3].k[1] * x[3].k[2]) } }

LinearLayers ==
    { [kind |-> "linear", wshape |-> <<o, i>>,
       kernel_size |-> <<>>, stride |-> <<>>, padding |-> <<>>,
       dilation |-> <<>>, hasBias |-> b, est |-> <<k>>] :
         <<o, i, b, k>> \in
            { x \in (1..MaxFeat) \X (1..MaxFeat) \X BOOLEAN \X (1..MaxRank) :
                x[4] <= Min(x[1], x[2]) } }

Layers == ConvLayers \cup LinearLayers

----------------------------------------------------------------------------
(* The state machine                                                       *)

NoCall == [fn |-> "none", rank |-> 0]
NoPrev == [call |-> NoCall, chain |-> <<>>]
NoFwd == [x |-> NoShape, orig |-> NoShape, chain |-> NoShape]

Init ==
    /\ layer \in Layers
    /\ heap = [s \in Stores |-> 0]
    /\ rng = 0
    /\ pc = "idle"
    /\ call = NoCall
    /\ err = "none"
    /\ libfail = FALSE
    /\ chain = <<>>
    /\ prev = NoPrev
    /\ fwd = NoFwd
    /\ calls = 0
    /\ updates = 0

(* Mutant: a failure of the library caught, and a chain returned anyway.   *)
Result_fallback(libfails, l, ch) ==
    IF ~l.hasBias
    THEN [pc |-> "raised", err |-> "AttributeError", chain |-> <<>>]
    ELSE [pc |-> "done", err |-> "none", chain |-> ch]

(* How a call ends.  No function catches anything: a failure of the rank   *)
(* estimate or of the decomposition leaves the function at once; otherwise *)
(* the layers are built and layer.bias.data is read, which raises          *)
(* AttributeError when layer.bias is None; otherwise ch is returned.       *)
Result(libfails, l, ch) ==
    IF libfails
    THEN [pc |-> "raised", err |-> "lib", chain |-> <<>>]
    ELSE IF ~l.hasBias
    THEN [pc |-> "raised", err |-> "AttributeError", chain |-> <<>>]
    ELSE [pc |-> "done", err |-> "none", chain |-> ch]

(* What every call does around its own work: the caller keeps the chain    *)
(* returned before, and the tensors the call allocates are new.            *)
Enter(fn, rank, libfails, r) ==
    /\ calls < MaxCalls
    /\ calls' = calls + 1
    /\ call' = [fn |-> fn, rank |-> rank]
    /\ libfail' = libfails
    /\ pc' = r.pc
    /\ err' = r.err
    /\ chain' = r.chain
    /\ prev' = IF pc = "done" THEN [call |-> call, chain |-> chain] ELSE prev
    /\ heap' = [s \in Stores |->
                  IF s \in {LayerWeightStore, LayerBiasStore} THEN heap[s] ELSE 0]
    /\ fwd' = NoFwd
    /\ UNCHANGED <<layer, updates>>

CallCP(rank, libfails) ==
    /\ layer.kind = "conv"
    /\ rng' = IF Draws(WeightData(layer), rank, InitOf(WeightData(layer)))
              THEN rng + 1 ELSE rng
    /\ Enter("cp", rank, libfails,
             Result(libfails, layer, cp_decomposition_conv_layer(layer, rank, rng)))

CallTucker(libfails) ==
    /\ layer.kind = "conv"
    /\ rng' = rng
    /\ Enter("tucker", 0, libfails,
             Result(libfails, layer, tucker_decomposition_conv_layer(layer)))

CallSVD(libfails) ==
    /\ layer.kind = "linear"
    /\ rng' = rng
    /\ Enter("svd", 0, libfails,
             Result(libfails, layer, svd_decomposition_dense_layer(layer)))

(* The caller updates parameter p of layer i of the chain in place, as an  *)
(* optimizer step does: a write to the storage the parameter lives in.     *)
Update(i, p) ==
    /\ pc = "done"
    /\ updates < MaxUpdates
    /\ i \in 1..Len(chain)
    /\ chain[i][p] # None
    /\ heap' = [heap EXCEPT ![chain[i][p].store] = @ + 1]
    /\ updates' = updates + 1
    /\ UNCHANGED <<layer, rng, pc, call, err, libfail, chain, prev, fwd, calls>>

(* The caller feeds an input the original layer accepts to the layer and   *)
(* to the chain that replaces it.                                          *)
Forward(h, w) ==
    LET x == <<layer.wshape[2], h, w>>
    IN /\ pc = "done"
       /\ layer.kind = "conv"
       /\ fwd = NoFwd
       /\ LayerOut(Original(layer), x) # NoShape
       /\ fwd' = [x |-> x, orig |-> LayerOut(Original(layer), x),
                  chain |-> SequentialOut(chain, x)]
       /\ UNCHANGED <<layer, heap, rng, pc, call, err, libfail, chain, prev,
                      calls, updates>>

Next ==
    \/ \E rank \in 1..MaxRank, libfails \in BOOLEAN : CallCP(rank, libfails)
    \/ \E libfails \in BOOLEAN : CallTucker(libfails)
    \/ \E libfails \in BOOLEAN : CallSVD(libfails)
    \/ \E i \in 1..4, p \in {"weight", "bias"} : Update(i, p)

Spec == Init /\ [][Next]_vars

(* The caller that compares the outputs of a convolution layer and of the  *)
(* chain that replaces it.                                                 *)
NextForward ==
    \/ \E rank \in 1..MaxRank, libfails \in BOOLEAN : CallCP(rank, libfails)
    \/ \E libfails \in BOOLEAN : CallTucker(libfails)
    \/ \E h \in 1..MaxInput, w \in 1..MaxInput : Forward(h, w)

SpecForward == Init /\ [][NextForward]_vars

----------------------------------------------------------------------------
(* Properties                                                              *)

Returned(fn) == pc = "done" /\ call.fn = fn

(* C1: the chain cp_decomposition_conv_layer returns for a weight of shape *)
(* (T, S, kh, kw) and rank R is, in this order, a 1x1 layer from S to R, a *)
(* depthwise (kh, 1) layer on R channels, a depthwise (1, kw) layer on R   *)
(* channels and a 1x1 layer from R to T; consecutive channel counts agree, *)
(* only the last layer has a bias, and it is the original layer's bias.    *)
C1_CPChain ==
    Returned("cp") =>
        LET T == layer.wshape[1]
            S == layer.wshape[2]
            kh == layer.wshape[3]
            kw == layer.wshape[4]
            R == call.rank
        IN /\ Len(chain) = 4
           /\ \A i \in 1..4 : chain[i].type = "Conv2d"
           /\ chain[1].in_channels = S /\ chain[1].out_channels = R
           /\ chain[1].kernel_size = <<1, 1>> /\ chain[1].groups = 1
           /\ chain[2].in_channels = R /\ chain[2].out_channels = R
           /\ chain[2].kernel_size = <<kh, 1>> /\ chain[2].groups = R
           /\ chain[3].in_channels = R /\ chain[3].out_channels = R
           /\ chain[3].kernel_size = <<1, kw>> /\ chain[3].groups = R
           /\ chain[4].in_channels = R /\ chain[4].out_channels = T
           /\ chain[4].kernel_size = <<1, 1>> /\ chain[4].groups = 1
           /\ \A i \in 1..3 : chain[i].out_channels = chain[i + 1].in_channels
           /\ \A i \in 1..3 : chain[i].bias = None
           /\ chain[4].bias = BiasData(layer)

C1_Witness ==
    /\ Returned("cp")
    /\ layer.wshape = <<RandomInitSize, 1, 2, 3>>
    /\ call.rank = 2

(* C2: the chain tucker_decomposition_conv_layer returns for a weight of   *)
(* shape (T, S, kh, kw) and estimated ranks [r0, r1] is, in this order, a  *)
(* 1x1 layer from S to r1 with stride 1 and padding 0, a convolution from  *)
(* r1 to r0 with the original kernel size, stride, padding and dilation,   *)
(* and a 1x1 layer from r0 to T with stride 1 and padding 0; only the last *)
(* layer has a bias, and it is the original layer's bias.                  *)
C2_TuckerChain ==
    Returned("tucker") =>
        LET T == layer.wshape[1]
            S == layer.wshape[2]
            r0 == estimate_ranks_tucker(layer)[1]
            r1 == estimate_ranks_tucker(layer)[2]
        IN /\ Len(chain) = 3
           /\ \A i \in 1..3 : chain[i].type = "Conv2d" /\ chain[i].groups = 1
           /\ chain[1].in_channels = S /\ chain[1].out_channels = r1
           /\ chain[1].kernel_size = <<1, 1>>
           /\ chain[1].stride = <<1, 1>> /\ chain[1].padding = <<0, 0>>
           /\ chain[2].in_channels = r1 /\ chain[2].out_channels = r0
           /\ chain[2].kernel_size = layer.kernel_size
           /\ chain[2].stride = layer.stride
           /\ chain[2].padding = layer.padding
           /\ chain[2].dilation = layer.dilation
           /\ chain[3].in_channels = r0 /\ chain[3].out_channels = T
           /\ chain[3].kernel_size = <<1, 1>>
           /\ chain[3].stride = <<1, 1>> /\ chain[3].padding = <<0, 0>>
           /\ \A i \in 1..2 : chain[i].bias = None
           /\ chain[3].bias = BiasData(layer)

C2_Witness ==
    /\ Returned("tucker")
    /\ layer.stride = <<2, 2>> /\ layer.padding = <<1, 1>>
    /\ layer.est = <<1, 2>>

(* C3: the chain svd_decomposition_dense_layer returns for a weight of     *)
(* shape (out, in) and estimated rank k is two linear layers: the first    *)
(* has no bias and the (k, in) weight whose row r is the r-th right        *)
(* singular vector, the second has the (out, k) weight whose column j is   *)
(* the j-th left singular vector times the j-th singular value, and        *)
(* carries the original bias; the k kept are the first k the SVD returns.  *)
C3_SVDChain ==
    Returned("svd") =>
        LET out == layer.wshape[1]
            in == layer.wshape[2]
            k == estimate_ranks_svd(layer)
            m == Min(out, in)
        IN /\ Len(chain) = 2
           /\ \A i \in 1..2 : chain[i].type = "Linear"
           /\ chain[1].bias = None
           /\ chain[1].weight.shape = <<k, in>>
           /\ chain[1].weight.val =
                [r \in 1..k |-> [c \in 1..in |-> VEntry(c, r)]]
           /\ chain[2].weight.shape = <<out, k>>
           /\ chain[2].weight.val =
                [i \in 1..out |-> [j \in 1..k |-> UEntry(i, j) * SEntry(j, m)]]
           /\ chain[2].bias = BiasData(layer)

C3_Witness ==
    /\ Returned("svd")
    /\ layer.wshape = <<3, 2>>
    /\ layer.est = <<1>>

(* C4: on every input the original layer accepts, the chain returned by    *)
(* cp_decomposition_conv_layer produces an output with the channel count,  *)
(* height and width the original layer produces.                           *)
C4_CPSameOutputShape ==
    (Returned("cp") /\ fwd # NoFwd) => fwd.chain = fwd.orig

(* C5: estimate_ranks_tucker unfolds the weights along mode 0 and mode 1   *)
(* and returns [rank of the mode-0 unfolding, rank of the mode-1           *)
(* unfolding]; tucker_decomposition_conv_layer passes them for modes       *)
(* [0, 1], so the core has ranks[0] output and ranks[1] input channels.    *)
C5_TuckerRankOrder ==
    Returned("tucker") =>
        LET W == WeightData(layer)
            T == layer.wshape[1]
            S == layer.wshape[2]
            kk == layer.wshape[3] * layer.wshape[4]
            rank0 == EVBMF(layer, unfold(W, 0))[1]
            rank1 == EVBMF(layer, unfold(W, 1))[1]
        IN /\ unfold(W, 0).shape = <<T, S * kk>>
           /\ unfold(W, 1).shape = <<S, T * kk>>
           /\ chain[2].out_channels = rank0
           /\ chain[2].in_channels = rank1
           /\ chain[2].weight.shape =
                <<rank0, rank1, layer.wshape[3], layer.wshape[4]>>
           /\ chain[3].weight.shape = <<T, rank0, 1, 1>>
           /\ chain[1].weight.shape = <<rank1, S, 1, 1>>

C5_Witness ==
    /\ Returned("tucker")
    /\ layer.est = <<2, 1>>
    /\ layer.wshape[1] # layer.wshape[2]

(* C6: for a layer without a bias, each decomposition function still       *)
(* completes and returns its chain.                                        *)
C6_NoBiasReturns ==
    (pc # "idle" /\ ~layer.hasBias /\ ~libfail) => (pc = "done" /\ chain # <<>>)

(* C7: the input layer's weight and bias are never written: not during a   *)
(* call, and not by an in-place update of a parameter of a returned chain. *)
C7_InputUnchanged ==
    heap[LayerWeightStore] = 0 /\ heap[LayerBiasStore] = 0

Structure(ch) ==
    [i \in 1..Len(ch) |->
        [ch[i] EXCEPT !.weight = [@ EXCEPT !.data = Tag("any", "none", 0)]]]

C9_FailurePropagates ==
    /\ (pc # "idle" /\ libfail) => (pc = "raised" /\ err = "lib" /\ chain = <<>>)
    /\ pc = "raised" => chain = <<>>
    /\ rng <= calls

C9_Witness ==
    /\ pc = "raised" /\ libfail /\ layer.hasBias
    /\ call.fn = "cp" /\ call.rank > layer.wshape[1]

(* C10: in every returned chain each layer's declared dimensions agree     *)
(* with its parameters: a convolution weight has shape (out_channels,      *)
(* in_channels / groups, kernel height, kernel width), a linear weight     *)
(* (out_features, in_features), and a bias has length out.                 *)
C10_DeclaredDimensions ==
    pc = "done" =>
        \A i \in 1..Len(chain) :
            /\ chain[i].weight.shape =
                 IF chain[i].type = "Conv2d"
                 THEN <<chain[i].out_channels,
                        chain[i].in_channels \div chain[i].groups,
                        chain[i].kernel_size[1], chain[i].kernel_size[2]>>
                 ELSE <<chain[i].out_channels, chain[i].in_channels>>
            /\ chain[i].bias # None =>
                 chain[i].bias.shape = <<chain[i].out_channels>>

====
